---------------------------- MODULE Spec2Model ----------------------------
(***************************************************************************)
(* Chloroplast genome structure: partition of a circular sequence into     *)
(* lsc / ira / ssc / irb (zci_bio/chloroplast/utils.py), offsets and part  *)
(* orientation (analyse_step_1.py) and reconstruction of missing inverted  *)
(* repeats from close relatives (analyse_step_3.py).                       *)
(***************************************************************************)
EXTENDS Integers, Sequences, FiniteSets, TLC

VARIABLES
    \* seq_offset(seq_length, offset)
    o_length, o_offset, o_result,
    \* find_chloroplast_partition(seq)
    seq, irs, parts, p_pc,
    \* chloroplast_parts_orientation(seq_rec, partition, genes)
    g_parts, genes, orient,
    \* find_missing_partitions(seq_descs), find_best_irs_by_similar(...)
    seq_descs,            \* seq_ident -> [taxid, parts, took]
    taxid_2_ncbi,         \* taxid -> seq_ident
    delta,                \* what the alignment runner finds against each relative
    m_pc, m_i, with_irs,  \* the calling thread
    tasks,                \* seq_ident -> the _run_align call for that target
    seq_2_result_object,  \* seq_ident -> (ira, irb, transfer_from)
    align_log,            \* seq_ident -> the relatives the runner was run against
    write_log,            \* seq_ident -> the keys the target's task has written
    warnings,             \* the warnings printed
    ret,                  \* what the call returned
    \* the three tiers applied to one alignment
    t_align, t_res,
    \* the Partition Builder on the sequences of a batch
    b_seqs, b_descs,
    \* one SequenceDesc object: its attributes, and how far its methods are
    d_desc, d_pc

offVars  == <<o_length, o_offset, o_result>>
partVars == <<seq, irs, parts, p_pc>>
orientVars == <<g_parts, genes, orient>>
resVars  == <<seq_descs, taxid_2_ncbi, delta, m_pc, m_i, with_irs, tasks,
              seq_2_result_object, align_log, write_log, warnings, ret>>
tierVars == <<t_align, t_res>>
buildVars == <<b_seqs, b_descs>>
dataVars == <<d_desc, d_pc>>
vars     == <<offVars, partVars, orientVars, resVars, tierVars, buildVars, dataVars>>

-----------------------------------------------------------------------------
(* Bounds *)

\* Largest sequence length the offset function is applied to.
MaxOffsetLength == 14
\* Length of the circular sequence handed to the partition builder.
SeqLen == 6
\* Longest annotated feature: a third of the sequence.
MaxFeatLen == SeqLen \div 3
\* Most features a sequence carries.
MaxFeatures == 3
\* Most genes a sequence carries.
MaxGenes == 2
\* Sequences of a batch; the last two lack inverted repeats.
NumSeqs == 4

-----------------------------------------------------------------------------
(* Python values *)

None == [tag |-> "None"]

abs(x) == IF x < 0 THEN -x ELSE x

\* int(bool)
int(b) == IF b THEN 1 ELSE 0

Max(S) == CHOOSE m \in S : \A x \in S : x <= m

RECURSIVE SumSeq(_)
SumSeq(s) == IF s = <<>> THEN 0 ELSE Head(s) + SumSeq(Tail(s))

-----------------------------------------------------------------------------
(* analyse_step_1.seq_offset *)

seq_offset_flipped(length, offset) ==
    LET o2 == offset - length
    IN  IF offset < abs(o2) THEN o2 ELSE offset

seq_offset(length, offset) ==
    LET o2 == offset - length
    IN  IF offset <= abs(o2) THEN offset ELSE o2

OffIdle == o_length = 0 /\ o_offset = 0 /\ o_result = None

OffInit ==
    /\ o_length \in 1..MaxOffsetLength
    /\ o_offset \in 0..(o_length - 1)
    /\ o_result = None

SeqOffset ==
    /\ o_result = None
    /\ o_result' = [tag |-> "int", value |-> seq_offset(o_length, o_offset)]
    /\ UNCHANGED <<o_length, o_offset>>
    /\ UNCHANGED <<partVars, orientVars, resVars, tierVars, buildVars, dataVars>>

-----------------------------------------------------------------------------
(* Sequence records and their features *)

\* A feature's location is the arc of Len positions starting at start; an arc
\* running over the origin is a compound location of two sub-intervals.
Positions(L, start, len) == {(start + i) % L : i \in 0..(len - 1)}

\* f.location.start: the smallest start of the location's sub-intervals.
LocationStart(L, f) == IF f.start + f.len > L THEN 0 ELSE f.start

\* f.qualifiers.get('rpt_type', _ir)[0]
RptType(f) == IF f.rpt_type = "absent" THEN "inverted" ELSE f.rpt_type

RepeatFeatures ==
    [type : {"repeat_region"}, rpt_type : {"inverted"},
     start : 0..(SeqLen - 1), len : 1..MaxFeatLen]

OtherFeatures ==
    [type : {"repeat_region"}, rpt_type : {"absent", "direct"},
     start : {0}, len : 1..MaxFeatLen]
    \cup [type : {"gene"}, rpt_type : {"absent"}, start : {0}, len : 1..MaxFeatLen]

FeatureSet == RepeatFeatures \cup OtherFeatures


-----------------------------------------------------------------------------
(* utils.find_chloroplast_irs *)

\* f.type == 'repeat_region' and f.qualifiers.get('rpt_type', _ir)[0] == 'inverted'
IsInvertedRepeat_any_kind(f) == f.type = "repeat_region"

IsInvertedRepeat(f) == f.type = "repeat_region" /\ RptType(f) = "inverted"

HasMaxLen(f, max_len) == f.len = max_len

\* The longest pair of inverted repeats, ordered (ira, irb), or None.
find_chloroplast_irs_at_least_two(s) ==
    LET rep_regs == SelectSeq(s.features, IsInvertedRepeat)
    IN  IF rep_regs = <<>> THEN None
        ELSE LET max_len == Max({rep_regs[i].len : i \in DOMAIN rep_regs})
                 IsMax(f) == HasMaxLen(f, max_len)
                 max_regs == SelectSeq(rep_regs, IsMax)
             IN  IF Len(max_regs) >= 2
                 THEN [tag |-> "irs", ira |-> max_regs[1], irb |-> max_regs[2]]
                 ELSE None

find_chloroplast_irs_not_strict(s) ==
    LET rep_regs == SelectSeq(s.features, IsInvertedRepeat)
    IN  IF rep_regs = <<>> THEN None
        ELSE LET max_len == Max({rep_regs[i].len : i \in DOMAIN rep_regs})
                 IsMax(f) == HasMaxLen(f, max_len)
                 max_regs == SelectSeq(rep_regs, IsMax)
             IN  IF Len(max_regs) = 2
                 THEN LET check_l == s.len \div 4
                          ira == max_regs[1]
                          irb == max_regs[2]
                      IN  IF check_l <= LocationStart(s.len, irb)
                             /\ LocationStart(s.len, irb) < LocationStart(s.len, ira)
                          THEN [tag |-> "irs", ira |-> irb, irb |-> ira]
                          ELSE [tag |-> "irs", ira |-> ira, irb |-> irb]
                 ELSE None

find_chloroplast_irs(s) ==
    LET rep_regs == SelectSeq(s.features, IsInvertedRepeat)
    IN  IF rep_regs = <<>> THEN None
        ELSE LET max_len == Max({rep_regs[i].len : i \in DOMAIN rep_regs})
                 IsMax(f) == HasMaxLen(f, max_len)
                 max_regs == SelectSeq(rep_regs, IsMax)
             IN  IF Len(max_regs) = 2
                 THEN LET check_l == s.len \div 4
                          ira == max_regs[1]
                          irb == max_regs[2]
                      IN  IF check_l < LocationStart(s.len, irb)
                             /\ LocationStart(s.len, irb) < LocationStart(s.len, ira)
                          THEN [tag |-> "irs", ira |-> irb, irb |-> ira]
                          ELSE [tag |-> "irs", ira |-> ira, irb |-> irb]
                 ELSE None

-----------------------------------------------------------------------------
(* utils.features: Feature and Partition *)

\* Feature(l_seq, name=..., feature=f): a named arc; real_start is the start of
\* the later sub-interval when the arc runs over the origin.
Feature(name, f) == [name |-> name, start |-> f.start, len |-> f.len]

PartPositions(L, p) == Positions(L, p.start, p.len)

Covered(L, seeds) == UNION {PartPositions(L, seeds[i]) : i \in DOMAIN seeds}

\* The maximal uncovered arcs, as unnamed parts.
GapStarts(L, seeds) ==
    {p \in 0..(L - 1) : p \notin Covered(L, seeds) /\ ((p - 1) % L) \in Covered(L, seeds)}

GapLen(L, seeds, p) ==
    CHOOSE k \in 1..L :
        /\ ((p + k) % L) \in Covered(L, seeds)
        /\ \A j \in 0..(k - 1) : ((p + j) % L) \notin Covered(L, seeds)

SeedsAt(seeds, p) ==
    LET StartsHere(x) == x.start = p IN SelectSeq(seeds, StartsHere)

GapAt(L, seeds, p) ==
    IF p \in GapStarts(L, seeds)
    THEN << [name |-> "", start |-> p, len |-> GapLen(L, seeds, p)] >>
    ELSE << >>

RECURSIVE PartsFrom(_, _, _)
PartsFrom(L, seeds, p) ==
    IF p >= L THEN << >>
    ELSE SeedsAt(seeds, p) \o GapAt(L, seeds, p) \o PartsFrom(L, seeds, p + 1)

\* Partition(parts, fill=True): the seed parts and the gaps between them, in
\* the order of their real starts.
Partition(L, seeds) == PartsFrom(L, seeds, 0)

\* partition.not_named_parts(), as indexes into the partition
not_named_parts(ps) == LET Unnamed(i) == ps[i].name = ""
                           AllIdx == [i \in 1..Len(ps) |-> i]
                       IN  SelectSeq(AllIdx, Unnamed)

get_part_by_name(ps, name) == ps[CHOOSE i \in DOMAIN ps : ps[i].name = name]

-----------------------------------------------------------------------------
(* utils.find_chloroplast_partition *)

SetName(ps, i, name) == [ps EXCEPT ![i].name = name]

\* n_parts[1 - ssc_ind].name = 'lsc'; n_parts[ssc_ind].name = 'ssc'
name_gaps_same_index(ps, n_parts, ssc_ind) ==
    SetName(SetName(ps, n_parts[ssc_ind + 1], "lsc"), n_parts[ssc_ind + 1], "ssc")

name_gaps(ps, n_parts, ssc_ind) ==
    SetName(SetName(ps, n_parts[(1 - ssc_ind) + 1], "lsc"), n_parts[ssc_ind + 1], "ssc")

\* ssc_ind = int(len(n_parts[0]) > len(n_parts[1]))
ssc_index_flipped(ps, n_parts) == int(ps[n_parts[1]].len < ps[n_parts[2]].len)

ssc_index(ps, n_parts) == int(ps[n_parts[1]].len > ps[n_parts[2]].len)

\* assert len(n_parts) == 2
find_chloroplast_partition_no_assert(s) ==
    LET found == find_chloroplast_irs(s)
    IN  IF found = None THEN None
        ELSE LET l_seq == s.len
                 partition == Partition(l_seq, << Feature("ira", found.ira),
                                                  Feature("irb", found.irb) >>)
                 n_parts == not_named_parts(partition)
             IN  IF Len(n_parts) # 2
                 THEN None
                 ELSE [tag |-> "Partition",
                       parts |-> name_gaps(partition, n_parts,
                                           ssc_index(partition, n_parts))]

\* None, a Partition with parts named lsc, ira, ssc, irb, or the failed assert.
find_chloroplast_partition(s) ==
    LET found == find_chloroplast_irs(s)
    IN  IF found = None THEN None
        ELSE LET l_seq == s.len
                 partition == Partition(l_seq, << Feature("ira", found.ira),
                                                  Feature("irb", found.irb) >>)
                 n_parts == not_named_parts(partition)
             IN  IF Len(n_parts) # 2
                 THEN [tag |-> "AssertionError", n |-> Len(n_parts)]
                 ELSE [tag |-> "Partition",
                       parts |-> name_gaps(partition, n_parts,
                                           ssc_index(partition, n_parts))]

PartIdle == seq = None /\ irs = None /\ parts = None /\ p_pc = "idle"

PartInit ==
    /\ seq = [len |-> SeqLen, features |-> << >>]
    /\ irs = None
    /\ parts = None
    /\ p_pc = "load"

\* The sequence record is read: one more annotated feature.
AddFeature ==
    /\ p_pc = "load"
    /\ Len(seq.features) < MaxFeatures
    /\ \E f \in FeatureSet : seq' = [seq EXCEPT !.features = Append(@, f)]
    /\ UNCHANGED <<irs, parts, p_pc>>
    /\ UNCHANGED <<offVars, orientVars, resVars, tierVars, buildVars, dataVars>>

FindChloroplastPartition ==
    /\ p_pc = "load"
    /\ irs' = find_chloroplast_irs(seq)
    /\ parts' = find_chloroplast_partition(seq)
    /\ p_pc' = "built"
    /\ UNCHANGED seq
    /\ UNCHANGED <<offVars, orientVars, resVars, tierVars, buildVars, dataVars>>

-----------------------------------------------------------------------------
(* analyse_step_1.chloroplast_parts_orientation *)

\* Gene names, as strings of characters.
GeneNames == { <<"r", "p", "l", "2">>, <<"r", "p", "s", "4">>,
               <<"r", "r", "n", "1", "6">>, <<"p", "s", "b", "A">> }

GeneSet == [name : GeneNames, strand : {1, -1}, start : 0..(SeqLen - 1)]

\* x in f.name
Contains(name, x) ==
    \E i \in 1..(Len(name) - Len(x) + 1) : SubSeq(name, i, i + Len(x) - 1) = x

\* partition.put_features_in_parts(features): each feature goes to the part
\* holding its start coordinate.
put_features_in_parts(L, ps, fs) ==
    [n \in {ps[i].name : i \in DOMAIN ps} |->
        LET InPart(f) == f.start \in PartPositions(L, get_part_by_name(ps, n))
        IN  SelectSeq(fs, InPart)]

\* in_parts.get(name, [])
InPartsGet(in_parts, name) ==
    IF name \in DOMAIN in_parts THEN in_parts[name] ELSE << >>

StrandIfNamed(f, subs) ==
    IF \E x \in subs : Contains(f.name, x) THEN f.strand ELSE 0

lsc_count(in_parts) ==
    LET fs == InPartsGet(in_parts, "lsc")
    IN  SumSeq([i \in DOMAIN fs |-> StrandIfNamed(fs[i], {<<"r", "p", "l">>, <<"r", "p", "s">>})])

ssc_count(in_parts) ==
    LET fs == InPartsGet(in_parts, "ssc")
    IN  SumSeq([i \in DOMAIN fs |-> fs[i].strand])

ira_count(in_parts) ==
    LET fs == InPartsGet(in_parts, "ira")
    IN  SumSeq([i \in DOMAIN fs |-> StrandIfNamed(fs[i], {<<"r", "r", "n">>})])

chloroplast_parts_orientation_strict(L, ps, gs) ==
    LET in_parts == put_features_in_parts(L, ps, gs)
    IN  [lsc |-> lsc_count(in_parts) < 0,
         ssc |-> ssc_count(in_parts) < 0,
         ira |-> ira_count(in_parts) > 0]

chloroplast_parts_orientation(L, ps, gs) ==
    LET in_parts == put_features_in_parts(L, ps, gs)
    IN  [lsc |-> lsc_count(in_parts) <= 0,
         ssc |-> ssc_count(in_parts) <= 0,
         ira |-> ira_count(in_parts) >= 0]

InvertedRepeat(start, len) ==
    [type |-> "repeat_region", rpt_type |-> "inverted", start |-> start, len |-> len]

\* The partitions the orientation is checked on: lsc at the origin, and lsc
\* running over the origin.
OrientPartitions ==
    { find_chloroplast_partition(
          [len |-> SeqLen, features |-> << InvertedRepeat(a, 1), InvertedRepeat(a + 2, 1) >>]).parts
      : a \in {2, SeqLen - 3} }

OrientIdle == g_parts = << >> /\ genes = << >> /\ orient = None

OrientInit ==
    /\ g_parts \in OrientPartitions
    /\ genes = << >>
    /\ orient = None

\* find_uniq_features(seq, 'gene'): one more gene of the sequence.
AddGene ==
    /\ orient = None
    /\ Len(genes) < MaxGenes
    /\ \E g \in GeneSet : genes' = Append(genes, g)
    /\ UNCHANGED <<g_parts, orient>>
    /\ UNCHANGED <<offVars, partVars, resVars, tierVars, buildVars, dataVars>>

ChloroplastPartsOrientation ==
    /\ orient = None
    /\ orient' = [tag |-> "dict",
                  flags |-> chloroplast_parts_orientation(SeqLen, g_parts, genes)]
    /\ UNCHANGED <<g_parts, genes>>
    /\ UNCHANGED <<offVars, partVars, resVars, tierVars, buildVars, dataVars>>

-----------------------------------------------------------------------------
(* analyse_step_3: what one alignment gives *)

\* One match of the runner's output: its interval on the target and its strand.
Match(a, b, positive) == [sequence_interval |-> <<a, b>>, positive |-> positive]

\* sequence_interval[0], sequence_interval[1]
SI0(m) == m.sequence_interval[1]
SI1(m) == m.sequence_interval[2]

\* align.aligns(None, 'end1'), align.aligns(None, 'end2')
aligns(align, query) == IF query = "end1" THEN align.end1 ELSE align.end2

Irs(ira, irb) == [tag |-> "irs", ira |-> ira, irb |-> irb]

\* ira_2, irb_1 = align.aligns(None, 'end2')
_get_nice_irs_second_end2(align) ==
    IF 2 = Len(aligns(align, "end1")) /\ Len(aligns(align, "end1")) = Len(aligns(align, "end2"))
    THEN LET ira_1 == aligns(align, "end1")[1]
             irb_2 == aligns(align, "end1")[2]
             ira_2 == aligns(align, "end2")[2]
             irb_1 == aligns(align, "end2")[1]
         IN  Irs(<<SI0(ira_1), SI1(ira_2)>>, <<SI0(irb_1), SI1(irb_2)>>)
    ELSE None

_get_nice_irs(align) ==
    IF 2 = Len(aligns(align, "end1")) /\ Len(aligns(align, "end1")) = Len(aligns(align, "end2"))
    THEN LET ira_1 == aligns(align, "end1")[1]
             irb_2 == aligns(align, "end1")[2]
             ira_2 == aligns(align, "end2")[1]
             irb_1 == aligns(align, "end2")[2]
         IN  Irs(<<SI0(ira_1), SI1(ira_2)>>, <<SI0(irb_1), SI1(irb_2)>>)
    ELSE None

\* if ir.positive: ... else: ...
_get_2_1_irs_strand_ignored(align) ==
    IF Len(aligns(align, "end1")) = 2 /\ Len(aligns(align, "end2")) = 1
    THEN LET ira_1 == aligns(align, "end1")[1]
             irb_2 == aligns(align, "end1")[2]
             ir    == aligns(align, "end2")[1]
             x     == SI1(ir)
             y     == SI1(irb_2) - (x - SI0(ira_1))
         IN  Irs(<<SI0(ira_1), x>>, <<y, SI1(irb_2)>>)
    ELSE None

_get_2_1_irs(align) ==
    IF Len(aligns(align, "end1")) = 2 /\ Len(aligns(align, "end2")) = 1
    THEN LET ira_1 == aligns(align, "end1")[1]
             irb_2 == aligns(align, "end1")[2]
             ir    == aligns(align, "end2")[1]
         IN  IF ir.positive
             THEN LET x == SI1(ir)
                      y == SI1(irb_2) - (x - SI0(ira_1))
                  IN  Irs(<<SI0(ira_1), x>>, <<y, SI1(irb_2)>>)
             ELSE LET y == SI0(ir)
                      x == SI0(ira_1) + (SI1(irb_2) - y)
                  IN  Irs(<<SI0(ira_1), x>>, <<y, SI1(irb_2)>>)
    ELSE None

\* len(align.aligns(None, 'end1')) == 1 and len(align.aligns(None, 'end2')) == 2
_get_1_2_irs_two_or_more(align) ==
    IF Len(aligns(align, "end1")) = 1 /\ Len(aligns(align, "end2")) >= 2
    THEN LET ir    == aligns(align, "end1")[1]
             ira_2 == aligns(align, "end2")[1]
             irb_1 == aligns(align, "end2")[2]
         IN  IF ir.positive
             THEN LET x == SI0(ir)
                      y == SI0(irb_1) + (SI1(ira_2) - x)
                  IN  Irs(<<x, SI1(ira_2)>>, <<SI0(irb_1), y>>)
             ELSE LET y == SI1(ir)
                      x == SI1(ira_2) - (y - SI0(irb_1))
                  IN  Irs(<<x, SI1(ira_2)>>, <<SI0(irb_1), y>>)
    ELSE None

\* y = irb_1.sequence_interval[0] + (ira_2.sequence_interval[1] - x)
_get_1_2_irs_not_extrapolated(align) ==
    IF Len(aligns(align, "end1")) = 1 /\ Len(aligns(align, "end2")) = 2
    THEN LET ir    == aligns(align, "end1")[1]
             ira_2 == aligns(align, "end2")[1]
             irb_1 == aligns(align, "end2")[2]
         IN  IF ir.positive
             THEN LET x == SI0(ir)
                      y == SI1(irb_1)
                  IN  Irs(<<x, SI1(ira_2)>>, <<SI0(irb_1), y>>)
             ELSE LET y == SI1(ir)
                      x == SI1(ira_2) - (y - SI0(irb_1))
                  IN  Irs(<<x, SI1(ira_2)>>, <<SI0(irb_1), y>>)
    ELSE None

_get_1_2_irs(align) ==
    IF Len(aligns(align, "end1")) = 1 /\ Len(aligns(align, "end2")) = 2
    THEN LET ir    == aligns(align, "end1")[1]
             ira_2 == aligns(align, "end2")[1]
             irb_1 == aligns(align, "end2")[2]
         IN  IF ir.positive
             THEN LET x == SI0(ir)
                      y == SI0(irb_1) + (SI1(ira_2) - x)
                  IN  Irs(<<x, SI1(ira_2)>>, <<SI0(irb_1), y>>)
             ELSE LET y == SI1(ir)
                      x == SI1(ira_2) - (y - SI0(irb_1))
                  IN  Irs(<<x, SI1(ira_2)>>, <<SI0(irb_1), y>>)
    ELSE None

\* The loop of _get_the_best_ir over irss[k..], with max_l, max_irs so far.
RECURSIVE BestIrFrom(_, _, _, _)
BestIrFrom(irss, k, max_l, max_irs) ==
    IF k > Len(irss) THEN max_irs
    ELSE IF irss[k] = None THEN BestIrFrom(irss, k + 1, max_l, max_irs)
    ELSE LET ira == irss[k].ira
             irb == irss[k].irb
             _l  == IF ira[2] > ira[1] THEN ira[2] - ira[1] ELSE irb[2] - irb[1]
         IN  IF max_irs = None \/ _l > max_l
             THEN BestIrFrom(irss, k + 1, _l, irss[k])
             ELSE BestIrFrom(irss, k + 1, max_l, max_irs)

\* if max_l is None or _l > max_l
_get_the_best_ir_first(irss) ==
    LET found == {k \in DOMAIN irss : irss[k] # None}
    IN  IF found = {} THEN None
        ELSE irss[CHOOSE k \in found : \A j \in found : k <= j]

_get_the_best_ir(irss) == BestIrFrom(irss, 1, 0, None)

\* Try nice ones, than partial (2+1), than partial (1+2)
_get_the_best_irs_partial_first(alignments) ==
    LET nice == _get_the_best_ir([k \in DOMAIN alignments |-> _get_nice_irs(alignments[k])])
        p21  == _get_the_best_ir([k \in DOMAIN alignments |-> _get_2_1_irs(alignments[k])])
        p12  == _get_the_best_ir([k \in DOMAIN alignments |-> _get_1_2_irs(alignments[k])])
    IN  IF p21 # None THEN p21 ELSE IF nice # None THEN nice ELSE p12

_get_the_best_irs_nice_only(alignments) ==
    _get_the_best_ir([k \in DOMAIN alignments |-> _get_nice_irs(alignments[k])])

_get_the_best_irs(alignments) ==
    LET nice == _get_the_best_ir([k \in DOMAIN alignments |-> _get_nice_irs(alignments[k])])
        p21  == _get_the_best_ir([k \in DOMAIN alignments |-> _get_2_1_irs(alignments[k])])
        p12  == _get_the_best_ir([k \in DOMAIN alignments |-> _get_1_2_irs(alignments[k])])
    IN  IF nice # None THEN nice ELSE IF p21 # None THEN p21 ELSE p12

-----------------------------------------------------------------------------
(* The batch and the external collaborators *)

Seqs == 1..NumSeqs

\* The runner's output against one relative, by the hits it holds: two and two
\* (a shorter and a longer repeat), two and one, one and two, one and one.
NiceShort == [end1 |-> << Match(10, 12, TRUE), Match(40, 42, FALSE) >>,
              end2 |-> << Match(18, 20, TRUE), Match(30, 32, FALSE) >>]

NiceLong == [end1 |-> << Match(10, 12, TRUE), Match(43, 45, FALSE) >>,
             end2 |-> << Match(23, 25, TRUE), Match(30, 32, FALSE) >>]

TwoOne == [end1 |-> << Match(10, 12, TRUE), Match(40, 42, FALSE) >>,
           end2 |-> << Match(16, 18, TRUE) >>]

OneTwo == [end1 |-> << Match(10, 12, TRUE) >>,
           end2 |-> << Match(17, 19, TRUE), Match(30, 32, FALSE) >>]

OneOne == [end1 |-> << Match(10, 12, TRUE) >>,
           end2 |-> << Match(18, 20, TRUE) >>]

Deltas == {NiceShort, NiceLong, TwoOne, OneTwo, OneOne}

\* Two and two hits whose IRA comes out short and whose IRB comes out long.
NiceSkewed == [end1 |-> << Match(10, 12, TRUE), Match(48, 50, FALSE) >>,
               end2 |-> << Match(13, 15, TRUE), Match(30, 32, FALSE) >>]

\* The runner ended with a non-zero exit status and left no delta file.
FailedRun == [end1 |-> << >>, end2 |-> << >>, exit |-> 1]

ShiftMatches(ms, by) ==
    [k \in DOMAIN ms |-> Match(SI0(ms[k]) + by, SI1(ms[k]) + by, ms[k].positive)]

\* run_align_cmd(seq_fasta, qry_fasta, out_prefix): the matches of the
\* relative's IRA ends on the target, in the target's coordinates.
run_align_cmd(seq_ident, d) ==
    [end1 |-> ShiftMatches(delta[d].end1, seq_ident),
     end2 |-> ShiftMatches(delta[d].end2, seq_ident)]

\* os.system(cmd) drops the exit status; MummerDelta(f'{out_prefix}.delta')
\* opens a file that is not there.
run_align_raises(d) == "exit" \in DOMAIN delta[d]

\* ncbi_tax.find_close_taxids(taxid, max_taxid, with_irs): some of the taxa of
\* with_irs, closest first.
CloseTaxids(from) ==
    { l \in UNION { [1..n -> from] : n \in 0..Cardinality(from) } :
        \A a, b \in DOMAIN l : a # b => l[a] # l[b] }

NoTask == [pc |-> "none", first_nice |-> TRUE, close_data |-> << >>, i |-> 0,
           all_aligns |-> << >>]

\* _run_align(seq_ident, seq_data, close_data, seq_2_result_object, first_nice=...)
NewTask(close_data, first_nice) ==
    [pc |-> "running", first_nice |-> first_nice, close_data |-> close_data, i |-> 1,
     all_aligns |-> << >>]

\* dict.get(key)
DictGet(dict, key) == IF key \in DOMAIN dict THEN dict[key] ELSE None

-----------------------------------------------------------------------------
(* analyse_step_3._run_align *)

\* if first_nice and (x := _get_nice_irs(align))
never_stops(first_nice, x) == FALSE

stops_on_nice(first_nice, x) == first_nice /\ x # None

\* seq_2_result_object[seq_ident] = ...
result_key_donor(seq_ident, d) == d

result_key(seq_ident, d) == seq_ident

\* all_aligns = []: the list of the call itself
RECURSIVE AlignsOfTasksFrom(_)
AlignsOfTasksFrom(k) ==
    IF k > NumSeqs THEN << >> ELSE tasks[k].all_aligns \o AlignsOfTasksFrom(k + 1)

task_aligns_shared(t) == AlignsOfTasksFrom(1)

task_aligns(t) == tasks[t].all_aligns

\* (*x, d.seq_ident)
ResultTuple(x, d) == [ira |-> x.ira, irb |-> x.irb, transfer_from |-> d]

\* Whether the task of target t is about to run the body of its for loop.
InLoop(t) == tasks[t].pc = "running" /\ tasks[t].i <= Len(tasks[t].close_data)

\* for d in close_data: the candidate of the i-th pass
next_candidate_from_end(close_data, i) == close_data[Len(close_data) - i + 1]

next_candidate(close_data, i) == close_data[i]

\* What follows the return of run_align_cmd in one pass of the loop: the
\* error of a failed run, the early return on a nice result in first-nice
\* mode, or the next pass.
AfterAlign(t, d) ==
    IF run_align_raises(d)
    THEN /\ tasks' = [tasks EXCEPT ![t].pc = "raised"]
         /\ UNCHANGED <<seq_2_result_object, write_log>>
    ELSE LET tk    == tasks[t]
             align == run_align_cmd(t, d)
             x     == _get_nice_irs(align)
         IN  IF stops_on_nice(tk.first_nice, x)
             THEN /\ seq_2_result_object' =
                        (result_key(t, d) :> ResultTuple(x, d)) @@ seq_2_result_object
                  /\ write_log' = [write_log EXCEPT ![t] = Append(@, result_key(t, d))]
                  /\ tasks' = [tasks EXCEPT ![t].pc = "done"]
             ELSE /\ tasks' = [tasks EXCEPT ![t].all_aligns = Append(@, align),
                                            ![t].i = @ + 1,
                                            ![t].pc = "running"]
                  /\ UNCHANGED <<seq_2_result_object, write_log>>

\* One pass of the for loop: the alignment against the next relative and, in
\* first-nice mode, the early return on a nice result.  A relative without a
\* partition has no 'ira' part to extract: the call raises.
RunAlignStep(t) ==
    /\ InLoop(t)
    /\ LET d == next_candidate(tasks[t].close_data, tasks[t].i)
       IN  IF ~seq_descs[d].parts
           THEN /\ tasks' = [tasks EXCEPT ![t].pc = "raised"]
                /\ UNCHANGED <<seq_2_result_object, align_log, write_log>>
           ELSE /\ align_log' = [align_log EXCEPT ![t] = Append(@, d)]
                /\ AfterAlign(t, d)
    /\ UNCHANGED <<seq_descs, taxid_2_ncbi, delta, m_pc, m_i, with_irs, warnings, ret>>
    /\ UNCHANGED <<offVars, partVars, orientVars, tierVars, buildVars, dataVars>>

\* The same pass in two steps.  First the query is written and run_align_cmd
\* is called: os.system(cmd) blocks the task until the runner has ended.
RunnerCall(t) ==
    /\ InLoop(t)
    /\ LET d == next_candidate(tasks[t].close_data, tasks[t].i)
       IN  IF ~seq_descs[d].parts
           THEN /\ tasks' = [tasks EXCEPT ![t].pc = "raised"]
                /\ UNCHANGED align_log
           ELSE /\ align_log' = [align_log EXCEPT ![t] = Append(@, d)]
                /\ tasks' = [tasks EXCEPT ![t].pc = "in_runner"]
    /\ UNCHANGED <<seq_2_result_object, write_log>>
    /\ UNCHANGED <<seq_descs, taxid_2_ncbi, delta, m_pc, m_i, with_irs, warnings, ret>>
    /\ UNCHANGED <<offVars, partVars, orientVars, tierVars, buildVars, dataVars>>

\* Then the runner returns and the pass goes on with what it found.
RunnerReturn(t) ==
    /\ tasks[t].pc = "in_runner"
    /\ AfterAlign(t, next_candidate(tasks[t].close_data, tasks[t].i))
    /\ UNCHANGED <<seq_descs, taxid_2_ncbi, delta, m_pc, m_i, with_irs, align_log,
                   warnings, ret>>
    /\ UNCHANGED <<offVars, partVars, orientVars, tierVars, buildVars, dataVars>>

\* After the loop: no alignment matched all ends (or first_nice is off); the
\* best of all alignments is stored, with d still the last relative of the loop.
RunAlignBest(t) ==
    /\ tasks[t].pc = "running"
    /\ tasks[t].i > Len(tasks[t].close_data)
    /\ LET tk == tasks[t]
           d  == tk.close_data[Len(tk.close_data)]
           x  == _get_the_best_irs(task_aligns(t))
       IN  /\ IF x # None
              THEN /\ seq_2_result_object' =
                         (result_key(t, d) :> ResultTuple(x, d)) @@ seq_2_result_object
                   /\ write_log' = [write_log EXCEPT ![t] = Append(@, result_key(t, d))]
              ELSE UNCHANGED <<seq_2_result_object, write_log>>
           /\ tasks' = [tasks EXCEPT ![t].pc = "done"]
    /\ UNCHANGED <<seq_descs, taxid_2_ncbi, delta, m_pc, m_i, with_irs, align_log, warnings, ret>>
    /\ UNCHANGED <<offVars, partVars, orientVars, tierVars, buildVars, dataVars>>

\* Any statement of the call may raise (ensure_directory, write_fasta, the
\* runner): the call ends there, before it has stored anything.
RunAlignCrash(t) ==
    /\ tasks[t].pc = "running"
    /\ tasks' = [tasks EXCEPT ![t].pc = "raised"]
    /\ UNCHANGED <<seq_descs, taxid_2_ncbi, delta, m_pc, m_i, with_irs,
                   seq_2_result_object, align_log, write_log, warnings, ret>>
    /\ UNCHANGED <<offVars, partVars, orientVars, tierVars, buildVars, dataVars>>

\* _run_align as one sequential call: the entry it stores for the target, or
\* None when it stores nothing or raises.
RECURSIVE RunAlignFrom(_, _, _, _, _)
RunAlignFrom(seq_ident, close_data, first_nice, k, all_aligns) ==
    IF k > Len(close_data)
    THEN LET x == _get_the_best_irs(all_aligns)
         IN  IF x # None THEN ResultTuple(x, close_data[Len(close_data)]) ELSE None
    ELSE LET d == next_candidate(close_data, k)
         IN  IF ~seq_descs[d].parts \/ run_align_raises(d) THEN None
             ELSE LET align == run_align_cmd(seq_ident, d)
                      x     == _get_nice_irs(align)
                  IN  IF first_nice /\ x # None
                      THEN ResultTuple(x, d)
                      ELSE RunAlignFrom(seq_ident, close_data, first_nice, k + 1,
                                        Append(all_aligns, align))

_run_align(seq_ident, close_data, first_nice) ==
    RunAlignFrom(seq_ident, close_data, first_nice, 1, << >>)

-----------------------------------------------------------------------------
(* analyse_step_3.find_missing_partitions *)

\* The state of the call before its first statement.
BatchStart ==
    /\ m_i = 0
    /\ with_irs = {}
    /\ tasks = [s \in Seqs |-> NoTask]
    /\ seq_2_result_object = << >>
    /\ align_log = [s \in Seqs |-> << >>]
    /\ write_log = [s \in Seqs |-> << >>]
    /\ warnings = << >>
    /\ ret = None

\* The batch: the first sequences have a partition of their own, the last two
\* have none; every sequence is of its own taxon.  The runner's output
\* against each relative is one of outputs.
BatchOver(outputs) ==
    /\ seq_descs = [s \in Seqs |-> [taxid |-> s, parts |-> s <= NumSeqs - 2, took |-> None]]
    /\ taxid_2_ncbi = [x \in Seqs |-> x]
    /\ delta \in [Seqs -> outputs]
    /\ \A s \in Seqs : ~seq_descs[s].parts => delta[s] = OneOne
    /\ BatchStart

BatchInit == BatchOver(Deltas)

\* A batch in which any sequence may have a partition and the last sequence
\* may be of the taxon of the first.
AnyBatch ==
    /\ \E ps \in [Seqs -> BOOLEAN], shared \in BOOLEAN :
          seq_descs = [s \in Seqs |->
              [taxid |-> IF shared /\ s = NumSeqs THEN 1 ELSE s, parts |-> ps[s],
               took |-> None]]
    /\ taxid_2_ncbi \in [Seqs -> Seqs]
    /\ \A x \in Seqs :
          IF \E s \in Seqs : seq_descs[s].taxid = x
          THEN seq_descs[taxid_2_ncbi[x]].taxid = x
          ELSE taxid_2_ncbi[x] = x
    /\ delta = [s \in Seqs |-> IF s % 2 = 1 THEN NiceShort ELSE TwoOne]
    /\ BatchStart

\* A partition reconstructed by an earlier call.
CarriedTook == [ira |-> <<0, 1>>, irb |-> <<2, 3>>, transfer_from |-> 1, how |-> "missing"]

\* A batch an earlier call has worked on: any sequence may have a partition,
\* each of the last two may carry a reconstructed one, and the last sequence
\* may be of the taxon of the first.
CarriedBatch ==
    /\ \E ps \in [Seqs -> BOOLEAN], ts \in [{NumSeqs - 1, NumSeqs} -> BOOLEAN],
          shared \in BOOLEAN :
          seq_descs = [s \in Seqs |->
              [taxid |-> IF shared /\ s = NumSeqs THEN 1 ELSE s, parts |-> ps[s],
               took |-> IF s >= NumSeqs - 1 /\ ts[s] THEN CarriedTook ELSE None]]
    /\ taxid_2_ncbi \in [Seqs -> Seqs]
    /\ \A x \in Seqs :
          IF \E s \in Seqs : seq_descs[s].taxid = x
          THEN seq_descs[taxid_2_ncbi[x]].taxid = x
          ELSE taxid_2_ncbi[x] = x
    /\ delta = [s \in Seqs |-> IF s % 2 = 1 THEN NiceShort ELSE TwoOne]
    /\ BatchStart

ResIdle ==
    /\ seq_descs = << >> /\ taxid_2_ncbi = << >> /\ delta = << >>
    /\ m_pc = "idle" /\ m_i = 0 /\ with_irs = {}
    /\ tasks = << >> /\ seq_2_result_object = << >>
    /\ align_log = << >> /\ write_log = << >> /\ warnings = << >> /\ ret = None

MissingInit == BatchInit /\ m_pc = "missing"

\* print('Warning: all genomes miss IR parts!!!')
WarnAllMiss == [msg |-> "all genomes miss IR parts", seq_ident |-> 0]

\* print(f"Warning: sequence {seq_ident} doesn't have close relative with IR partition!")
WarnNoClose(seq_ident) == [msg |-> "no close relative with IR partition", seq_ident |-> seq_ident]

\* with_irs and the two early returns.
MissingStart ==
    /\ m_pc = "missing"
    /\ LET w == {seq_descs[s].taxid : s \in {x \in Seqs : seq_descs[x].parts /\ seq_descs[x].took = None}}
       IN  /\ with_irs' = w
           /\ IF Cardinality(w) = Cardinality(DOMAIN seq_descs)
              THEN m_pc' = "returned" /\ UNCHANGED warnings
              ELSE IF w = {}
              THEN m_pc' = "returned" /\ warnings' = Append(warnings, WarnAllMiss)
              ELSE m_pc' = "submit" /\ UNCHANGED warnings
    /\ m_i' = 1
    /\ UNCHANGED <<seq_descs, taxid_2_ncbi, delta, tasks, seq_2_result_object,
                   align_log, write_log, ret>>
    /\ UNCHANGED <<offVars, partVars, orientVars, tierVars, buildVars, dataVars>>

\* if not close_taxids: print(...); continue
no_close_never(close_taxids) == FALSE

no_close(close_taxids) == close_taxids = << >>

\* if seq_data._parts or seq_data._took_parts: continue
skips_only_parts(seq_data) == seq_data.parts

skips_only_took(seq_data) == seq_data.took # None

skips(seq_data) == seq_data.parts \/ seq_data.took # None

\* One pass of the loop over seq_descs.items(): a sequence with a partition is
\* skipped, one without close relatives is warned about, any other is submitted.
MissingSubmit ==
    /\ m_pc = "submit"
    /\ m_i <= NumSeqs
    /\ LET seq_ident == m_i
           seq_data  == seq_descs[seq_ident]
       IN  IF skips(seq_data)
           THEN UNCHANGED <<tasks, warnings>>
           ELSE \E close_taxids \in CloseTaxids(with_irs) :
                   IF no_close(close_taxids)
                   THEN /\ warnings' = Append(warnings, WarnNoClose(seq_ident))
                        /\ UNCHANGED tasks
                   ELSE /\ tasks' = [tasks EXCEPT ![seq_ident] =
                              NewTask([k \in DOMAIN close_taxids |-> taxid_2_ncbi[close_taxids[k]]],
                                      TRUE)]
                        /\ UNCHANGED warnings
    /\ m_i' = m_i + 1
    /\ UNCHANGED <<seq_descs, taxid_2_ncbi, delta, m_pc, with_irs, seq_2_result_object,
                   align_log, write_log, ret>>
    /\ UNCHANGED <<offVars, partVars, orientVars, tierVars, buildVars, dataVars>>

\* seq_descs[seq_ident].set_took_part(ira, irb, transfer_from, 'missing')
set_took_part(desc, ira, irb, transfer_from, how) ==
    [desc EXCEPT !.took = [ira |-> ira, irb |-> irb, transfer_from |-> transfer_from,
                           how |-> how]]

\* executor.submit(...): the future is dropped, so what a task raised is
\* never raised again in the calling thread.
submit_reraises(ts) ==
    IF \E s \in DOMAIN ts : ts[s].pc = "raised" THEN "raised" ELSE "returned"

submit_outcome(ts) == "returned"

\* with ThreadPoolExecutor(...) as executor: leaving the block waits for
\* every submitted task.
waits_for_none(ts) == TRUE

waits_for_all(ts) == \A s \in DOMAIN ts : ts[s].pc \notin {"running", "in_runner"}

\* Leaving the with block waits for every submitted task; then the results
\* are set on the sequences and the mapping is returned.
MissingCollect ==
    /\ m_pc = "submit"
    /\ m_i > NumSeqs
    /\ waits_for_all(tasks)
    /\ IF submit_outcome(tasks) = "returned"
       THEN /\ seq_descs' = [s \in Seqs |->
                  IF s \in DOMAIN seq_2_result_object
                  THEN set_took_part(seq_descs[s], seq_2_result_object[s].ira,
                                     seq_2_result_object[s].irb,
                                     seq_2_result_object[s].transfer_from, "missing")
                  ELSE seq_descs[s]]
            /\ ret' = [tag |-> "dict", value |-> seq_2_result_object]
            /\ m_pc' = "returned"
       ELSE /\ m_pc' = "raised"
            /\ UNCHANGED <<seq_descs, ret>>
    /\ UNCHANGED <<taxid_2_ncbi, delta, m_i, with_irs, tasks, seq_2_result_object,
                   align_log, write_log, warnings>>
    /\ UNCHANGED <<offVars, partVars, orientVars, tierVars, buildVars, dataVars>>

-----------------------------------------------------------------------------
(* analyse_step_3.find_best_irs_by_similar *)

\* The sequence the best inverted repeats are looked up for.
BestTarget == NumSeqs

BestInit == BatchOver(Deltas \cup {NiceSkewed}) /\ m_pc = "best"

\* with_irs without the target's own taxon, the close relatives, and the call
\* of _run_align with first_nice=False on a mapping of its own.
BestStart ==
    /\ m_pc = "best"
    /\ LET seq_ident == BestTarget
           w == {seq_descs[s].taxid : s \in {x \in Seqs : seq_descs[x].parts}}
                    \ {seq_descs[seq_ident].taxid}
       IN  /\ with_irs' = w
           /\ IF w = {}
              THEN /\ m_pc' = "returned"
                   /\ warnings' = Append(warnings, WarnAllMiss)
                   /\ UNCHANGED tasks
              ELSE \E close_taxids \in CloseTaxids(w) :
                      IF no_close(close_taxids)
                      THEN /\ m_pc' = "returned"
                           /\ warnings' = Append(warnings, WarnNoClose(seq_ident))
                           /\ UNCHANGED tasks
                      ELSE /\ m_pc' = "align"
                           /\ tasks' = [tasks EXCEPT ![seq_ident] =
                                 NewTask([k \in DOMAIN close_taxids |->
                                             taxid_2_ncbi[close_taxids[k]]], FALSE)]
                           /\ UNCHANGED warnings
    /\ UNCHANGED <<seq_descs, taxid_2_ncbi, delta, m_i, seq_2_result_object,
                   align_log, write_log, ret>>
    /\ UNCHANGED <<offVars, partVars, orientVars, tierVars, buildVars, dataVars>>

\* return seq_2_result_object.get(seq_ident); an error of _run_align is not caught.
BestReturn ==
    /\ m_pc = "align"
    /\ tasks[BestTarget].pc \in {"done", "raised"}
    /\ IF tasks[BestTarget].pc = "done"
       THEN /\ ret' = DictGet(seq_2_result_object, BestTarget)
            /\ m_pc' = "returned"
       ELSE /\ ret' = None
            /\ m_pc' = "raised"
    /\ UNCHANGED <<seq_descs, taxid_2_ncbi, delta, m_i, with_irs, tasks,
                   seq_2_result_object, align_log, write_log, warnings>>
    /\ UNCHANGED <<offVars, partVars, orientVars, tierVars, buildVars, dataVars>>

-----------------------------------------------------------------------------
(* analyse_step_3: the tiers on any alignment *)

\* Largest start coordinate of a match.
MaxCoord == 2

MatchWidths == {1, 2}

Matches == {Match(a, a + w, p) : a \in 0..MaxCoord, w \in MatchWidths, p \in BOOLEAN}

\* align.aligns(None, query): the matches of one query, none to three of
\* them, ordered by start.
MatchLists ==
    { l \in UNION { [1..n -> Matches] : n \in 0..3 } :
        \A k \in 1..(Len(l) - 1) : SI0(l[k]) < SI0(l[k + 1]) }

TierIdle == t_align = None /\ t_res = None

TierInit ==
    /\ t_align \in [end1 : MatchLists, end2 : MatchLists]
    /\ t_res = None

\* for m in (_get_nice_irs, _get_2_1_irs, _get_1_2_irs): m(align)
GetIrs ==
    /\ t_align # None
    /\ t_res = None
    /\ t_res' = [nice |-> _get_nice_irs(t_align),
                 p21  |-> _get_2_1_irs(t_align),
                 p12  |-> _get_1_2_irs(t_align)]
    /\ UNCHANGED t_align
    /\ UNCHANGED <<offVars, partVars, orientVars, resVars, buildVars, dataVars>>

-----------------------------------------------------------------------------
(* The Partition Builder on the sequences of a batch *)

\* Sequences with no feature, or with two inverted repeats of one base: apart,
\* next to each other, or on top of each other.
BuildSeqs ==
    { [len |-> SeqLen, features |-> << >>] }
    \cup { [len |-> SeqLen, features |-> << f, g >>] :
             f \in {x \in RepeatFeatures : x.start = 0 /\ x.len = 1},
             g \in {x \in RepeatFeatures : x.start \in {0, 1, 3} /\ x.len = 1} }

\* find_chloroplast_partition(seq_ident, seq) for one sequence of the batch: a
\* failed assert ends the processing of that sequence.
BuilderOutcome(s) ==
    LET p == find_chloroplast_partition(s)
    IN  IF p.tag = "AssertionError"
        THEN [tag |-> "raised", error |-> "AssertionError"]
        ELSE [tag |-> "built", _parts |-> p]

\* Whether the batch goes on to its next sequence after these outcomes.
batch_goes_on(descs) == TRUE

BuildIdle == b_seqs = << >> /\ b_descs = << >>

BuildInit == b_seqs = << >> /\ b_descs = << >>

\* The next sequence of the batch is read and the Partition Builder applied.
BuildNextSequence ==
    /\ Len(b_seqs) < NumSeqs
    /\ batch_goes_on(b_descs)
    /\ \E s \in BuildSeqs :
          /\ b_seqs' = Append(b_seqs, s)
          /\ b_descs' = Append(b_descs, BuilderOutcome(s))
    /\ UNCHANGED <<offVars, partVars, orientVars, resVars, tierVars, dataVars>>

-----------------------------------------------------------------------------
(* analyse_step_1: formatting, offsets of parts *)

Min(S) == CHOOSE m \in S : \A x \in S : m <= x

\* A string value, as the sequence of its tokens, and an integer value.
Str(tokens) == [tag |-> "str", tokens |-> tokens]
PyInt(n) == [tag |-> "int", v |-> n]

\* A list passed where None may be passed instead.
PyList(items) == [tag |-> "list", items |-> items]

\* str(n) for each n of a list
Strs(ns) == [i \in DOMAIN ns |-> ToString(ns[i])]

\* sep.join(tokens)
RECURSIVE JoinTokens(_, _)
JoinTokens(tokens, sep) ==
    IF Len(tokens) <= 1 THEN tokens
    ELSE << Head(tokens), sep >> \o JoinTokens(Tail(tokens), sep)

Join(tokens, sep) == Str(JoinTokens(tokens, sep))

\* An attribute the object does not have.
Unset == [tag |-> "unset"]

TrnH_GUG == << "t", "r", "n", "H", "-", "G", "U", "G" >>

\* f.qualifiers['gene'][0]
GeneName(f) == IF "name" \in DOMAIN f THEN f.name ELSE << "g" >>

\* trnH_GUG_offset(seq_length, lsc_start, genes)
trnH_GUG_offset(seq_length, lsc_start, gs) ==
    LET IsTrnH(f) == GeneName(f) = TrnH_GUG
        features == SelectSeq(gs, IsTrnH)
    IN  IF features # << >>
        THEN PyInt(Min({seq_offset(seq_length, (features[i].start - lsc_start) % seq_length)
                        : i \in DOMAIN features}))
        ELSE None

\* _parts_desc(parts, genes, length): (part_starts, part_lens) and, with
\* genes, the number of genes of each part.
_parts_desc(ps, gs, length) ==
    LET lsc == get_part_by_name(ps, "lsc")
        ira == get_part_by_name(ps, "ira")
        ssc == get_part_by_name(ps, "ssc")
        irb == get_part_by_name(ps, "irb")
        lsc_s == seq_offset(length, lsc.start)
        starts == Join(Strs(<< lsc_s, ira.start, ssc.start, irb.start >>), ", ")
        part_lens == Join(Strs(<< lsc.len, ira.len, ssc.len >>), ", ")
        part_starts == Str(starts.tokens \o << "\n" >> \o part_lens.tokens)
    IN  IF gs.tag = "None"
        THEN << part_starts, part_lens >>
        ELSE LET part_genes == put_features_in_parts(length, ps, gs.items)
             IN  << part_starts, part_lens,
                    Join(Strs(<< Len(part_genes["lsc"]), Len(part_genes["ssc"]),
                                 Len(part_genes["ira"]), Len(part_genes["irb"]) >>), ", ") >>

\* _PartsDesc(parts, genes, seq_length)
_PartsDesc(ps, gs, seq_length) ==
    LET lsc == get_part_by_name(ps, "lsc")
        ira == get_part_by_name(ps, "ira")
        ssc == get_part_by_name(ps, "ssc")
        irb == get_part_by_name(ps, "irb")
        part_genes == put_features_in_parts(seq_length, ps, gs)
        offset == seq_offset(seq_length, lsc.start)
    IN  [starts    |-> << seq_offset(seq_length, lsc.start), ira.start, ssc.start, irb.start >>,
         lengths   |-> << lsc.len, ira.len, ssc.len, irb.len >>,
         offset    |-> offset,
         num_genes |-> << Len(part_genes["lsc"]), Len(part_genes["ira"]),
                          Len(part_genes["ssc"]), Len(part_genes["irb"]) >>,
         trnH_GUG  |-> trnH_GUG_offset(seq_length, offset, gs)]

-----------------------------------------------------------------------------
(* analyse_step_1.SequenceDesc.__init__ *)

\* find_uniq_features(seq, _type): the features of the type, without those
\* that have the name and a position of an earlier one.
RECURSIVE UniqFrom(_, _, _, _)
UniqFrom(L, fs, k, kept) ==
    IF k > Len(fs) THEN kept
    ELSE LET f == fs[k]
             Clash(i) == /\ GeneName(kept[i]) = GeneName(f)
                         /\ Positions(L, kept[i].start, kept[i].len)
                              \cap Positions(L, f.start, f.len) # {}
         IN  IF \E i \in DOMAIN kept : Clash(i)
             THEN UniqFrom(L, fs, k + 1, kept)
             ELSE UniqFrom(L, fs, k + 1, Append(kept, f))

find_uniq_features(s, _type) ==
    LET OfType(f) == f.type = _type
    IN  UniqFrom(s.len, SelectSeq(s.features, OfType), 1, << >>)

\* A call of find_chloroplast_partition, defined with the parameters
\* (seq_ident, seq), on the positional arguments args.
call_find_chloroplast_partition(args) ==
    IF Len(args) # 2
    THEN [tag |-> "TypeError"]
    ELSE find_chloroplast_partition(args[2])

\* SequenceDesc(seq_ident, seq, ...): the object, or the error the
\* constructor ends with.  self._parts = find_chloroplast_partition(seq)
SequenceDesc(seq_ident, s) ==
    LET _genes == find_uniq_features(s, "gene")
        _parts == call_find_chloroplast_partition(<< s >>)
    IN  IF _parts.tag \in {"TypeError", "AssertionError"}
        THEN [tag |-> "raised", error |-> _parts.tag]
        ELSE [tag |-> "SequenceDesc",
              seq_ident |-> seq_ident,
              length |-> s.len,
              _genes |-> _genes,
              _parts |-> _parts,
              _parts_data |-> IF _parts # None
                              THEN _PartsDesc(_parts.parts, _genes, s.len) ELSE None,
              part_starts |-> None, part_lengths |-> None, part_genes |-> None,
              _took_parts |-> None, took_part_starts |-> None,
              part_orientation |-> None,
              offset |-> Unset, trnH_GUG |-> Unset]

DataIdle == d_desc = None /\ d_pc = "idle"

ConstructInit == d_desc = None /\ d_pc = "new"

\* The sequence record is read and its SequenceDesc constructed.
NewSequenceDesc ==
    /\ p_pc = "load"
    /\ d_pc = "new"
    /\ d_desc' = SequenceDesc(1, seq)
    /\ d_pc' = "constructed"
    /\ p_pc' = "read"
    /\ UNCHANGED <<seq, irs, parts>>
    /\ UNCHANGED <<offVars, orientVars, resVars, tierVars, buildVars>>

-----------------------------------------------------------------------------
(* analyse_step_1.SequenceDesc.set_parts_data *)

\* The genes of the sequences set_parts_data is called on.
DataGenes ==
    [name : {<<"r", "p", "s", "4">>, <<"r", "r", "n", "1", "6">>,
             <<"p", "s", "b", "A">>, TrnH_GUG},
     strand : {1, -1}, start : {0, SeqLen - 3, SeqLen - 2}]

DataGeneLists == UNION { [1..n -> DataGenes] : n \in 0..MaxGenes }

\* The partitions a sequence has, directly detected or reconstructed.
DataPartitions == { [tag |-> "Partition", parts |-> ps] : ps \in OrientPartitions }

\* A constructed object, before and after set_took_part.
SequenceDescs ==
    { [tag |-> "SequenceDesc", seq_ident |-> 1, length |-> SeqLen, _genes |-> gs,
       _parts |-> p,
       _parts_data |-> IF p # None THEN _PartsDesc(p.parts, gs, SeqLen) ELSE None,
       part_starts |-> None, part_lengths |-> None, part_genes |-> None,
       _took_parts |-> t, took_part_starts |-> None,
       part_orientation |-> None,
       offset |-> Unset, trnH_GUG |-> Unset]
      : gs \in DataGeneLists,
        p \in DataPartitions \cup {None},
        t \in DataPartitions \cup {None} }

\* if parts := self._took_parts or self._parts
better_parts_direct_first(took_parts, _parts) ==
    IF _parts # None THEN _parts ELSE took_parts

better_parts(took_parts, _parts) ==
    IF took_parts # None THEN took_parts ELSE _parts

\* for p in ('lsc', 'ira', 'ssc')
orientation_names_by_position == << "lsc", "ssc", "ira" >>

orientation_names == << "lsc", "ira", "ssc" >>

set_parts_data(d) ==
    LET d1 == IF d._parts # None
              THEN LET pd == _parts_desc(d._parts.parts, PyList(d._genes), d.length)
                   IN  [d EXCEPT !.part_starts = pd[1], !.part_lengths = pd[2],
                                 !.part_genes = pd[3]]
              ELSE d
        d2 == IF d._took_parts # None
              THEN [d1 EXCEPT !.took_part_starts =
                                 _parts_desc(d._took_parts.parts, None, d.length)[1]]
              ELSE d1
        chosen == better_parts(d._took_parts, d._parts)
    IN  IF chosen = None THEN d2
        ELSE LET offset == seq_offset(d.length, get_part_by_name(chosen.parts, "lsc").start)
                 orientation == chloroplast_parts_orientation(d.length, chosen.parts, d._genes)
                 NotOriented(p) == ~orientation[p]
                 ppp    == SelectSeq(orientation_names, NotOriented)
             IN  [d2 EXCEPT !.offset = PyInt(offset),
                            !.trnH_GUG = trnH_GUG_offset(d.length, offset, d._genes),
                            !.part_orientation = IF ppp # << >> THEN Join(ppp, ",") ELSE @]

DataInit == d_desc \in SequenceDescs /\ d_pc = "constructed"

SetPartsData ==
    /\ d_pc = "constructed"
    /\ d_desc' = set_parts_data(d_desc)
    /\ d_pc' = "data set"
    /\ UNCHANGED <<offVars, partVars, orientVars, resVars, tierVars, buildVars>>

-----------------------------------------------------------------------------
(* Specifications *)

OffsetNext == SeqOffset

OffsetInit == OffInit /\ PartIdle /\ OrientIdle /\ ResIdle /\ TierIdle /\ BuildIdle /\ DataIdle

SpecOffset == OffsetInit /\ [][OffsetNext]_vars

PartitionNext == AddFeature \/ FindChloroplastPartition

PartitionInit == PartInit /\ OffIdle /\ OrientIdle /\ ResIdle /\ TierIdle /\ BuildIdle /\ DataIdle

SpecPartition == PartitionInit /\ [][PartitionNext]_vars

OrientNext == AddGene \/ ChloroplastPartsOrientation

OrientationInit == OrientInit /\ OffIdle /\ PartIdle /\ ResIdle /\ TierIdle /\ BuildIdle /\ DataIdle

SpecOrient == OrientationInit /\ [][OrientNext]_vars

MissingNext ==
    \/ MissingStart
    \/ MissingSubmit
    \/ \E t \in Seqs : RunAlignStep(t)
    \/ \E t \in Seqs : RunAlignBest(t)
    \/ MissingCollect

MissingPartitionsInit ==
    MissingInit /\ OffIdle /\ PartIdle /\ OrientIdle /\ TierIdle /\ BuildIdle /\ DataIdle

SpecMissing == MissingPartitionsInit /\ [][MissingNext]_vars

BestNext ==
    \/ BestStart
    \/ \E t \in Seqs : RunAlignStep(t)
    \/ \E t \in Seqs : RunAlignBest(t)
    \/ BestReturn

BestIrsInit == BestInit /\ OffIdle /\ PartIdle /\ OrientIdle /\ TierIdle /\ BuildIdle /\ DataIdle

SpecBest == BestIrsInit /\ [][BestNext]_vars

\* find_missing_partitions with tasks that may raise at any statement.
CrashNext ==
    \/ MissingStart
    \/ MissingSubmit
    \/ \E t \in Seqs : RunAlignStep(t)
    \/ \E t \in Seqs : RunAlignBest(t)
    \/ \E t \in Seqs : RunAlignCrash(t)
    \/ MissingCollect

CrashInit ==
    /\ BatchOver({NiceShort, TwoOne, OneOne}) /\ m_pc = "missing"
    /\ OffIdle /\ PartIdle /\ OrientIdle /\ TierIdle /\ BuildIdle /\ DataIdle

SpecCrash == CrashInit /\ [][CrashNext]_vars

\* find_missing_partitions with a runner that may fail against a relative.
RunnerFailInit ==
    /\ BatchOver({NiceShort, TwoOne, OneOne, FailedRun}) /\ m_pc = "missing"
    /\ OffIdle /\ PartIdle /\ OrientIdle /\ TierIdle /\ BuildIdle /\ DataIdle

SpecRunnerFail == RunnerFailInit /\ [][MissingNext]_vars

\* find_missing_partitions on any batch.
AnyBatchInit ==
    /\ AnyBatch /\ m_pc = "missing"
    /\ OffIdle /\ PartIdle /\ OrientIdle /\ TierIdle /\ BuildIdle /\ DataIdle

SpecAnyBatch == AnyBatchInit /\ [][MissingNext]_vars

\* find_missing_partitions on a batch an earlier call has worked on.
CarriedInit ==
    /\ CarriedBatch /\ m_pc = "missing"
    /\ OffIdle /\ PartIdle /\ OrientIdle /\ TierIdle /\ BuildIdle /\ DataIdle

SpecCarried == CarriedInit /\ [][MissingNext]_vars

\* find_missing_partitions with each call of the runner as a step of its own.
RunnerNext ==
    \/ MissingStart
    \/ MissingSubmit
    \/ \E t \in Seqs : RunnerCall(t)
    \/ \E t \in Seqs : RunnerReturn(t)
    \/ \E t \in Seqs : RunAlignBest(t)
    \/ MissingCollect

RunnerInit ==
    /\ BatchOver({NiceShort, TwoOne, OneOne}) /\ m_pc = "missing"
    /\ OffIdle /\ PartIdle /\ OrientIdle /\ TierIdle /\ BuildIdle /\ DataIdle

SpecRunner == RunnerInit /\ [][RunnerNext]_vars

TiersNext == GetIrs

TiersInit == TierInit /\ OffIdle /\ PartIdle /\ OrientIdle /\ ResIdle /\ BuildIdle /\ DataIdle

SpecTiers == TiersInit /\ [][TiersNext]_vars

BuildNext == BuildNextSequence

BuildBatchInit == BuildInit /\ OffIdle /\ PartIdle /\ OrientIdle /\ ResIdle /\ TierIdle /\ DataIdle

SpecBuild == BuildBatchInit /\ [][BuildNext]_vars

\* The constructor on a sequence record.
ConstructNext == AddFeature \/ NewSequenceDesc

ConstructorInit ==
    /\ PartInit /\ ConstructInit
    /\ OffIdle /\ OrientIdle /\ ResIdle /\ TierIdle /\ BuildIdle

SpecConstruct == ConstructorInit /\ [][ConstructNext]_vars

\* set_parts_data on a constructed object.
PartsDataNext == SetPartsData

PartsDataInit ==
    /\ DataInit
    /\ OffIdle /\ PartIdle /\ OrientIdle /\ ResIdle /\ TierIdle /\ BuildIdle

SpecPartsData == PartsDataInit /\ [][PartsDataNext]_vars

-----------------------------------------------------------------------------
(* Offsets *)

\* C2: for every length L > 0 and position 0 <= x < L, seq_offset(L, x) is at
\* most L/2 in absolute value, is congruent to x modulo L, and is x when
\* x <= |x - L| and x - L otherwise.
SeqOffsetIsNearestRepresentative ==
    o_result # None =>
        /\ 2 * abs(o_result.value) <= o_length
        /\ (o_result.value - o_offset) % o_length = 0
        /\ o_result.value = IF o_offset <= abs(o_offset - o_length)
                            THEN o_offset ELSE o_offset - o_length

\* A position in the second half of the circle has been normalised.
SeqOffsetNegativeComputed ==
    /\ o_result # None
    /\ 2 * o_offset > o_length
    /\ o_result.value < 0

-----------------------------------------------------------------------------
(* Partition builder *)

NamedParts(ps, name) == {i \in DOMAIN ps : ps[i].name = name}

PartNames == {"lsc", "ira", "ssc", "irb"}

\* The inverted repeat_region features tied for maximum length.
TiedForMax(s) ==
    LET cand == {i \in DOMAIN s.features :
                    /\ s.features[i].type = "repeat_region"
                    /\ s.features[i].rpt_type \in {"inverted", "absent"}}
    IN  {i \in cand : \A j \in cand : s.features[j].len <= s.features[i].len}

\* C1: in every Partition the builder returns, lsc, ira, ssc and irb are
\* pairwise non-overlapping and their lengths sum to the sequence length.
PartitionTilesCircle ==
    (p_pc = "built" /\ parts.tag = "Partition") =>
        LET ps == parts.parts
        IN  /\ \A n \in PartNames : Cardinality(NamedParts(ps, n)) = 1
            /\ \A n, m \in PartNames :
                  n # m => PartPositions(seq.len, get_part_by_name(ps, n))
                             \cap PartPositions(seq.len, get_part_by_name(ps, m)) = {}
            /\ get_part_by_name(ps, "lsc").len + get_part_by_name(ps, "ira").len
                 + get_part_by_name(ps, "ssc").len + get_part_by_name(ps, "irb").len
                 = seq.len

\* A partition was built around an inverted repeat running over the origin.
PartitionBuiltOverOrigin ==
    /\ p_pc = "built" /\ parts.tag = "Partition"
    /\ \E i \in DOMAIN parts.parts :
          /\ parts.parts[i].name \in {"ira", "irb"}
          /\ parts.parts[i].start + parts.parts[i].len > seq.len

\* C3: the builder returns None whenever zero, one, or three or more inverted
\* repeats are tied for maximum length; a pair is returned only for exactly two.
NoneUnlessExactlyTwoTied ==
    p_pc = "built" =>
        /\ Cardinality(TiedForMax(seq)) # 2 => (irs = None /\ parts = None)
        /\ irs # None => Cardinality(TiedForMax(seq)) = 2

\* Three inverted repeats tied for maximum length gave None.
ThreeTiedGaveNone ==
    /\ p_pc = "built"
    /\ Cardinality(TiedForMax(seq)) = 3
    /\ parts = None

\* C4: the longer gap is named lsc and the shorter ssc; with gaps of equal
\* length exactly one is lsc and the other ssc.
LongerGapIsLsc ==
    (p_pc = "built" /\ parts.tag = "Partition") =>
        LET ps == parts.parts
            gaps == {i \in DOMAIN ps : ps[i].name \notin {"ira", "irb"}}
        IN  /\ Cardinality(gaps) = 2
            /\ {ps[i].name : i \in gaps} = {"lsc", "ssc"}
            /\ get_part_by_name(ps, "lsc").len >= get_part_by_name(ps, "ssc").len

\* The longer gap came first in the partition and was named lsc.
FirstGapLongerNamedLsc ==
    /\ p_pc = "built" /\ parts.tag = "Partition"
    /\ LET ps == parts.parts
           gaps == not_named_parts([i \in DOMAIN ps |->
                      IF ps[i].name \in {"lsc", "ssc"}
                      THEN [ps[i] EXCEPT !.name = ""] ELSE ps[i]])
       IN  /\ ps[gaps[1]].len > ps[gaps[2]].len
           /\ ps[gaps[1]].name = "lsc"

-----------------------------------------------------------------------------
(* Part orientation *)

\* The genes whose start lies in the named part.
GenesIn(name) ==
    {i \in DOMAIN genes :
        genes[i].start \in PartPositions(SeqLen, get_part_by_name(g_parts, name))}

RECURSIVE StrandSum(_)
StrandSum(S) ==
    IF S = {} THEN 0
    ELSE LET i == CHOOSE x \in S : TRUE
         IN  genes[i].strand + StrandSum(S \ {i})

NameHas(i, x) == \E k \in 1..Len(genes[i].name) :
                    k + Len(x) - 1 <= Len(genes[i].name)
                    /\ \A d \in 1..Len(x) : genes[i].name[k + d - 1] = x[d]

\* C5: the result has exactly the flags lsc, ssc, ira; lsc iff the strand sum
\* of the rpl/rps genes of lsc is <= 0, ssc iff the strand sum of all genes of
\* ssc is <= 0, ira iff the strand sum of the rrn genes of ira is >= 0.
OrientationFlagsFollowStrandSums ==
    orient # None =>
        /\ DOMAIN orient.flags = {"lsc", "ssc", "ira"}
        /\ orient.flags.lsc <=>
             StrandSum({i \in GenesIn("lsc") :
                          NameHas(i, <<"r", "p", "l">>) \/ NameHas(i, <<"r", "p", "s">>)}) <= 0
        /\ orient.flags.ssc <=> StrandSum(GenesIn("ssc")) <= 0
        /\ orient.flags.ira <=>
             StrandSum({i \in GenesIn("ira") : NameHas(i, <<"r", "r", "n">>)}) >= 0

\* ira holds only a gene that is not counted and is true on a sum of zero,
\* while lsc is false on a positive sum.
ZeroSumConforms ==
    /\ orient # None
    /\ GenesIn("ira") # {}
    /\ \A i \in GenesIn("ira") : ~NameHas(i, <<"r", "r", "n">>) /\ genes[i].strand = -1
    /\ orient.flags.ira
    /\ ~orient.flags.lsc

-----------------------------------------------------------------------------
(* Reconstruction of missing inverted repeats *)

BoundsOf(r) == Irs(r.ira, r.irb)

\* C6: in first-nice mode, once the alignment against a candidate yields a
\* nice result, that result is recorded for the target and no alignment is
\* run against a later candidate.
FirstNiceStopsAtFirstNice ==
    \A t \in Seqs :
        (tasks[t].pc # "none" /\ tasks[t].first_nice) =>
            \A k \in 1..Len(align_log[t]) :
                LET x == _get_nice_irs(run_align_cmd(t, align_log[t][k]))
                IN  x # None =>
                      /\ k = Len(align_log[t])
                      /\ tasks[t].pc = "done"
                      /\ t \in DOMAIN seq_2_result_object
                      /\ seq_2_result_object[t] = ResultTuple(x, align_log[t][k])

\* A task stopped on its first candidate and left the second one alone.
StoppedBeforeSecondCandidate ==
    \E t \in Seqs :
        /\ tasks[t].first_nice /\ tasks[t].pc = "done"
        /\ Len(tasks[t].close_data) = 2
        /\ align_log[t] = << tasks[t].close_data[1] >>
        /\ t \in DOMAIN seq_2_result_object
        /\ seq_2_result_object[t].transfer_from = tasks[t].close_data[1]

\* C7: in best-overall mode every candidate is aligned before a result is
\* returned, and the result is of the first of the tiers nice, 2+1, 1+2 that
\* any candidate satisfies.
BestOverallTakesHighestTier ==
    (m_pc = "returned" /\ ret # None) =>
        LET t    == BestTarget
            cd   == tasks[t].close_data
            alns == {run_align_cmd(t, cd[k]) : k \in DOMAIN cd}
            nice == {_get_nice_irs(a) : a \in alns} \ {None}
            p21  == {_get_2_1_irs(a) : a \in alns} \ {None}
            p12  == {_get_1_2_irs(a) : a \in alns} \ {None}
        IN  /\ ~tasks[t].first_nice
            /\ align_log[t] = cd
            /\ BoundsOf(ret) \in (IF nice # {} THEN nice ELSE IF p21 # {} THEN p21 ELSE p12)

\* A nice result was returned although an earlier candidate satisfied 2+1.
NiceReturnedOverEarlierPartial ==
    /\ m_pc = "returned" /\ ret # None
    /\ LET t  == BestTarget
           cd == tasks[t].close_data
       IN  /\ Len(cd) = 2
           /\ _get_2_1_irs(run_align_cmd(t, cd[1])) # None
           /\ BoundsOf(ret) = _get_nice_irs(run_align_cmd(t, cd[2]))

\* C8: in every recorded resolution the donor is the relative whose alignment
\* produced the recorded bounds.
DonorProducedBounds ==
    \A t \in DOMAIN seq_2_result_object :
        LET r == seq_2_result_object[t]
            a == run_align_cmd(t, r.transfer_from)
        IN  BoundsOf(r) \in {_get_nice_irs(a), _get_2_1_irs(a), _get_1_2_irs(a)}

\* C9: each task writes at most one entry, under its own target's identifier;
\* no two tasks write the same key.
TaskWritesOnlyOwnKey ==
    /\ \A t \in Seqs :
          /\ Len(write_log[t]) <= 1
          /\ \A k \in DOMAIN write_log[t] : write_log[t][k] = t
    /\ \A t, u \in Seqs :
          t # u => {write_log[t][k] : k \in DOMAIN write_log[t]}
                     \cap {write_log[u][k] : k \in DOMAIN write_log[u]} = {}

\* Two tasks have each written their entry, one of them before the calling
\* thread was done submitting.
TwoTasksWrote ==
    /\ m_pc = "submit"
    /\ Cardinality({t \in Seqs : Len(write_log[t]) = 1}) = 2
    /\ Cardinality(DOMAIN seq_2_result_object) = 2

\* What find_missing_partitions stores when each task runs alone, start to end.
SequentialResult ==
    LET resolved == {t \in Seqs : /\ tasks[t].pc # "none"
                                  /\ _run_align(t, tasks[t].close_data, TRUE) # None}
    IN  [t \in resolved |-> _run_align(t, tasks[t].close_data, TRUE)]

\* C10: for fixed taxonomy and alignment results, the mapping returned is the
\* same for every interleaving and completion order of the tasks.
ResultIndependentOfSchedule ==
    (m_pc = "returned" /\ ret # None) => ret.value = SequentialResult

\* Both targets were resolved, one by a nice result and one by the fallback.
BothTargetsResolved ==
    /\ m_pc = "returned" /\ ret # None
    /\ DOMAIN ret.value = {NumSeqs - 1, NumSeqs}
    /\ Len(align_log[NumSeqs - 1]) = 1
    /\ Len(align_log[NumSeqs]) = 2
    /\ Len(tasks[NumSeqs].all_aligns) = 2

-----------------------------------------------------------------------------
(* Failures *)

\* C11: a task that raised leaves its target without an entry in the mapping
\* and without a reconstructed partition; find_missing_partitions does not
\* raise and returns its mapping, in which the entry of every target whose
\* task ended is the one that task computes on its own.
CrashedTaskLeavesOnlyItsTargetUnresolved ==
    /\ m_pc # "raised"
    /\ \A t \in Seqs : tasks[t].pc = "raised" =>
          /\ t \notin DOMAIN seq_2_result_object
          /\ seq_descs[t].took = None
    /\ m_pc = "returned" =>
          /\ ret # None /\ ret.tag = "dict"
          /\ \A t \in Seqs : tasks[t].pc = "raised" => t \notin DOMAIN ret.value
          /\ \A u \in Seqs : tasks[u].pc = "done" =>
                LET alone == _run_align(u, tasks[u].close_data, TRUE)
                IN  /\ DictGet(ret.value, u) = alone
                    /\ alone # None =>
                          /\ seq_descs[u].took # None
                          /\ seq_descs[u].took.ira = alone.ira
                          /\ seq_descs[u].took.irb = alone.irb

\* The call returned after one task had raised in the middle of its loop and
\* the task of another target had stored its entry.
CrashedBesideResolved ==
    /\ m_pc = "returned" /\ ret # None
    /\ \E t, u \in Seqs :
          /\ tasks[t].pc = "raised"
          /\ Len(align_log[t]) >= 1
          /\ tasks[u].pc = "done"
          /\ u \in DOMAIN ret.value

\* C12: a failure of the runner against one relative does not end the task of
\* the target: the task goes on with its next relative or with the tiers.
RunnerFailureSkipsOnlyThatCandidate ==
    \A t \in Seqs :
        (align_log[t] # << >> /\ run_align_raises(align_log[t][Len(align_log[t])]))
            => tasks[t].pc # "raised"

SwapsExactlyWhenSecondStartsBetween ==
    (p_pc = "built" /\ Cardinality(TiedForMax(seq)) = 2) =>
        LET i  == CHOOSE x \in TiedForMax(seq) : \A y \in TiedForMax(seq) : x <= y
            j  == CHOOSE x \in TiedForMax(seq) : \A y \in TiedForMax(seq) : x >= y
            f1 == seq.features[i]
            f2 == seq.features[j]
            s1 == LocationStart(seq.len, f1)
            s2 == LocationStart(seq.len, f2)
        IN  /\ irs # None
            /\ IF seq.len \div 4 < s2 /\ s2 < s1
               THEN irs.ira = f2 /\ irs.irb = f1
               ELSE irs.ira = f1 /\ irs.irb = f2

\* The later of two different inverted repeats was returned as IRA.
LaterRepeatReturnedAsIra ==
    /\ p_pc = "built" /\ irs # None
    /\ Len(seq.features) = 2
    /\ seq.features[1] # seq.features[2]
    /\ irs.ira = seq.features[2]
    /\ irs.irb = seq.features[1]

\* A repeat_region whose repeat kind is inverted or not given.
IsCandidate(f) == f.type = "repeat_region" /\ f.rpt_type \in {"inverted", "absent"}

\* C15: the inverted repeats are taken from the repeat_region features whose
\* repeat kind is inverted or not given; the builder's result is the one it
\* gives on the record without its other features.
OnlyCandidatesDecide ==
    p_pc = "built" =>
        LET only == [seq EXCEPT !.features = SelectSeq(seq.features, IsCandidate)]
            longest == {f \in {only.features[i] : i \in DOMAIN only.features} :
                          \A k \in DOMAIN only.features : only.features[k].len <= f.len}
        IN  /\ irs = find_chloroplast_irs(only)
            /\ parts = find_chloroplast_partition(only)
            /\ irs # None => (irs.ira \in longest /\ irs.irb \in longest)
            /\ (Len(only.features) = 2 /\ only.features[1].len = only.features[2].len)
                  => irs # None

\* A partition was built around a repeat_region without repeat kind while a
\* longer gene and a longer direct repeat were annotated.
BuiltAroundDefaultKindBesideLonger ==
    /\ p_pc = "built" /\ parts.tag = "Partition"
    /\ irs.ira.rpt_type = "absent" \/ irs.irb.rpt_type = "absent"
    /\ \E i \in DOMAIN seq.features :
          /\ ~IsCandidate(seq.features[i])
          /\ seq.features[i].len > irs.ira.len

-----------------------------------------------------------------------------
(* Tiers *)

\* C16: with two end1 and two end2 matches, IRA runs from the start of the
\* first end1 match to the end of the first end2 match, and IRB from the start
\* of the second end2 match to the end of the second end1 match.
NiceIraEndsAtFirstEnd2Match ==
    (t_res # None /\ Len(t_align.end1) = 2 /\ Len(t_align.end2) = 2) =>
        /\ t_res.nice # None
        /\ t_res.nice.ira = << SI0(t_align.end1[1]), SI1(t_align.end2[1]) >>
        /\ t_res.nice.irb = << SI0(t_align.end2[2]), SI1(t_align.end1[2]) >>

\* C16 as stated: IRA runs from the start of the first end1 match to the end
\* of the second end2 match.
NiceIraEndsAtSecondEnd2Match ==
    (t_res # None /\ Len(t_align.end1) = 2 /\ Len(t_align.end2) = 2) =>
        /\ t_res.nice # None
        /\ t_res.nice.ira = << SI0(t_align.end1[1]), SI1(t_align.end2[2]) >>

\* The nice tier gave bounds on two end2 matches that end at different places.
NiceOnDistinctEnd2Ends ==
    /\ t_res # None /\ t_res.nice # None
    /\ SI1(t_align.end2[1]) # SI1(t_align.end2[2])

\* C17: with two end1 matches and one end2 match, IRA starts at the first end1
\* match's start and IRB ends at the second end1 match's end; a positive end2
\* hit gives IRA's end and IRB start = IRB end - (IRA end - IRA start), a
\* negative one gives IRB's start and IRA end = IRA start + (IRB end - IRB start).
TwoOneExtrapolatesByStrand ==
    (t_res # None /\ Len(t_align.end1) = 2 /\ Len(t_align.end2) = 1) =>
        LET r   == t_res.p21
            hit == t_align.end2[1]
        IN  /\ r # None
            /\ r.ira[1] = SI0(t_align.end1[1])
            /\ r.irb[2] = SI1(t_align.end1[2])
            /\ IF hit.positive
               THEN /\ r.ira[2] = SI1(hit)
                    /\ r.irb[1] = r.irb[2] - (r.ira[2] - r.ira[1])
               ELSE /\ r.irb[1] = SI0(hit)
                    /\ r.ira[2] = r.ira[1] + (r.irb[2] - r.irb[1])

\* The 2+1 tier extrapolated IRA's end from a hit on the negative strand.
TwoOneOnNegativeHit ==
    /\ t_res # None /\ t_res.p21 # None
    /\ ~t_align.end2[1].positive
    /\ t_res.p21.ira[2] # SI1(t_align.end2[1])

\* C18: the nice tier yields bounds iff the hit counts of (end1, end2) are
\* (2, 2), the 2+1 tier iff (2, 1), the 1+2 tier iff (1, 2); at most one tier
\* yields, and none with any other counts.
TierYieldsIffHitCounts ==
    t_res # None =>
        LET n1 == Len(t_align.end1)
            n2 == Len(t_align.end2)
        IN  /\ t_res.nice # None <=> (n1 = 2 /\ n2 = 2)
            /\ t_res.p21 # None <=> (n1 = 2 /\ n2 = 1)
            /\ t_res.p12 # None <=> (n1 = 1 /\ n2 = 2)
            /\ Cardinality({n \in {"nice", "p21", "p12"} : t_res[n] # None}) <= 1
            /\ <<n1, n2>> \notin {<<2, 2>>, <<2, 1>>, <<1, 2>>}
                  => (t_res.nice = None /\ t_res.p21 = None /\ t_res.p12 = None)

\* One hit on end1 and three on end2: no tier gave bounds.
ThreeHitsGaveNothing ==
    /\ t_res # None
    /\ Len(t_align.end1) = 1 /\ Len(t_align.end2) = 3
    /\ t_res.nice = None /\ t_res.p21 = None /\ t_res.p12 = None

-----------------------------------------------------------------------------
(* The best of a tier *)

\* What the tiers nice, 2+1, 1+2 (numbered 1, 2, 3) give on each alignment.
TierResults(n, alignments) ==
    [k \in DOMAIN alignments |->
        CASE n = 1 -> _get_nice_irs(alignments[k])
          [] n = 2 -> _get_2_1_irs(alignments[k])
          [] n = 3 -> _get_1_2_irs(alignments[k])]

\* The results of the first tier in which any alignment gives a result.
FirstYieldingTier(alignments) ==
    LET Yields(n) == \E k \in DOMAIN alignments : TierResults(n, alignments)[k] # None
    IN  IF Yields(1) THEN TierResults(1, alignments)
        ELSE IF Yields(2) THEN TierResults(2, alignments)
        ELSE TierResults(3, alignments)

LargerSpan(r) == Max({r.ira[2] - r.ira[1], r.irb[2] - r.irb[1]})

IraSpanElseIrbSpan(r) ==
    IF r.ira[2] > r.ira[1] THEN r.ira[2] - r.ira[1] ELSE r.irb[2] - r.irb[1]

\* C19: in best-overall mode the returned bounds are those of a candidate of
\* the first yielding tier whose span, IRA end - IRA start when that is
\* positive and IRB end - IRB start otherwise, is maximal in that tier.
BestHasMaximalIraSpan ==
    (m_pc = "returned" /\ ret # None) =>
        LET results == FirstYieldingTier(tasks[BestTarget].all_aligns)
        IN  \E k \in DOMAIN results :
                /\ results[k] # None
                /\ BoundsOf(ret) = results[k]
                /\ \A j \in DOMAIN results : results[j] # None =>
                      IraSpanElseIrbSpan(results[j]) <= IraSpanElseIrbSpan(results[k])

\* C19 as stated: the returned bounds are those of a candidate whose larger
\* span, max(IRA end - IRA start, IRB end - IRB start), is maximal in the tier.
BestHasMaximalLargerSpan ==
    (m_pc = "returned" /\ ret # None) =>
        LET results == FirstYieldingTier(tasks[BestTarget].all_aligns)
        IN  \E k \in DOMAIN results :
                /\ results[k] # None
                /\ BoundsOf(ret) = results[k]
                /\ \A j \in DOMAIN results : results[j] # None =>
                      LargerSpan(results[j]) <= LargerSpan(results[k])

\* The bounds of the second candidate were returned over shorter ones of the
\* first candidate in the same tier.
LongerSecondCandidateReturned ==
    /\ m_pc = "returned" /\ ret # None
    /\ LET results == FirstYieldingTier(tasks[BestTarget].all_aligns)
       IN  /\ Len(results) >= 2
           /\ results[1] # None /\ results[2] # None
           /\ IraSpanElseIrbSpan(results[1]) < IraSpanElseIrbSpan(results[2])
           /\ BoundsOf(ret) = results[2]

-----------------------------------------------------------------------------
(* Batches with nothing to reconstruct *)

\* C20: when every sequence of the batch has a partition, or none has, no
\* alignment is run, no task is submitted and no reconstructed partition is
\* recorded; the call ends without a warning in the first case and with the
\* one batch-level warning in the second.
NoWorkWhenAllOrNoneHavePartition ==
    LET all  == \A s \in Seqs : seq_descs[s].parts
        none == \A s \in Seqs : ~seq_descs[s].parts
    IN  (all \/ none) =>
            /\ \A s \in Seqs : /\ align_log[s] = << >>
                               /\ tasks[s].pc = "none"
                               /\ seq_descs[s].took = None
            /\ seq_2_result_object = << >>
            /\ m_pc # "raised"
            /\ m_pc = "returned" => warnings = IF none THEN << WarnAllMiss >> ELSE << >>

\* The call returned an empty mapping for a batch in which every sequence has
\* a partition and two sequences are of one taxon.
AllHavePartitionWithSharedTaxon ==
    /\ m_pc = "returned"
    /\ \A s \in Seqs : seq_descs[s].parts
    /\ seq_descs[NumSeqs].taxid = seq_descs[1].taxid
    /\ ret = [tag |-> "dict", value |-> << >>]

-----------------------------------------------------------------------------
(* The resolver's loop over targets and the loop over candidates *)

Warned(t) == \E k \in DOMAIN warnings : warnings[k] = WarnNoClose(t)

\* C21: a target for which the Close-Relative Finder returns an empty list is
\* warned about and skipped: no task is submitted and no alignment run for
\* it, it has no entry in the result mapping, the call does not raise, and
\* every other target without a partition that the loop has passed is either
\* warned about in the same way or has a task, with a non-empty candidate list.
EmptyCloseListSkipsOnlyThatTarget ==
    /\ m_pc # "raised"
    /\ \A t \in Seqs :
          /\ Warned(t) =>
                /\ tasks[t] = NoTask
                /\ align_log[t] = << >>
                /\ t \notin DOMAIN seq_2_result_object
          /\ tasks[t].pc # "none" => tasks[t].close_data # << >>
          /\ (~seq_descs[t].parts /\ m_pc \in {"submit", "returned"} /\ m_i > t) =>
                (Warned(t) # (tasks[t].pc # "none"))

\* The call has returned, one target was skipped for want of relatives and
\* another has been resolved.
WarnedBesideResolved ==
    /\ m_pc = "returned"
    /\ \E t, u \in Seqs :
          /\ Warned(t) /\ tasks[t] = NoTask
          /\ u > t /\ tasks[u].pc = "done" /\ u \in DOMAIN seq_2_result_object
          /\ seq_descs[u].took # None

\* The relatives the runner was called on are the first candidates of the
\* list, in the order of the list.
RunsFollowList ==
    \A t \in Seqs :
       LET tk == tasks[t]
           n  == Len(align_log[t])
       IN  /\ n <= Len(tk.close_data)
           /\ \A k \in 1..n : align_log[t][k] = tk.close_data[k]
           /\ tk.pc = "in_runner" => n = tk.i
           /\ tk.pc = "running" => n = tk.i - 1

\* A call of the runner is one more entry of the log of a task that is not
\* in the runner, and puts the task in the runner.
RunStartsAfterReturn ==
    \A t \in Seqs :
       align_log'[t] # align_log[t] =>
          /\ tasks[t].pc = "running"
          /\ tasks'[t].pc = "in_runner"
          /\ Len(align_log'[t]) = Len(align_log[t]) + 1

\* C22: within the task of a target the runner is called on one candidate at
\* a time in the order of the list of close relatives: the i-th call is on
\* the i-th candidate, and a call starts only when the previous call of the
\* task has returned.
RunnerCalledInListOrderOneAtATime ==
    []RunsFollowList /\ [][RunStartsAfterReturn]_vars

\* A task has called the runner on both candidates of a list that is not in
\* the order of the sequence identifiers.
TwoRunsInListOrder ==
    \E t \in Seqs :
       /\ tasks[t].pc = "done"
       /\ Len(tasks[t].close_data) = 2
       /\ tasks[t].close_data[1] > tasks[t].close_data[2]
       /\ align_log[t] = tasks[t].close_data

\* No step changes the directly detected partition or the taxon of a sequence.
PartsUntouched ==
    \A s \in Seqs :
       /\ seq_descs'[s].parts = seq_descs[s].parts
       /\ seq_descs'[s].taxid = seq_descs[s].taxid

\* A reconstructed partition is set only by the last step of the call, with
\* provenance 'missing', on a sequence that had neither partition.
TookSetOnlyAtReturn ==
    \A s \in Seqs :
       seq_descs'[s].took # seq_descs[s].took =>
          /\ m_pc = "submit" /\ m_pc' = "returned"
          /\ ~seq_descs[s].parts /\ seq_descs[s].took = None
          /\ seq_descs'[s].took.how = "missing"

\* That step sets one on each sequence with an entry in the mapping, and on
\* no other.
TookSetForEveryEntry ==
    (m_pc = "submit" /\ m_pc' = "returned") =>
       /\ DOMAIN seq_2_result_object \subseteq Seqs
       /\ ret'.value = seq_2_result_object
       /\ \A s \in Seqs :
             s \in DOMAIN seq_2_result_object <=> seq_descs'[s].took # seq_descs[s].took

\* C23: find_missing_partitions never changes the directly detected partition
\* of a sequence; a reconstructed partition with provenance 'missing' is set
\* once, as the call returns, on each sequence with an entry in the result
\* mapping and on no other, and each such sequence had neither a direct nor a
\* reconstructed partition before.
OnlyTookOfResolvedTargetsChanges ==
    [][PartsUntouched /\ TookSetOnlyAtReturn /\ TookSetForEveryEntry]_vars

\* The call has returned with a partition set on one sequence, beside a
\* sequence that carries the one an earlier call had set.
ResolvedBesideCarried ==
    /\ m_pc = "returned"
    /\ ret # None
    /\ \E s, u \in Seqs :
          /\ s \in DOMAIN ret.value
          /\ seq_descs[s].took # None /\ seq_descs[s].took.how = "missing"
          /\ u \notin DOMAIN ret.value
          /\ ~seq_descs[u].parts /\ seq_descs[u].took = CarriedTook

-----------------------------------------------------------------------------
(* set_parts_data *)

\* The report of the flags: the names of the parts with a false flag, in the
\* order lsc, ira, ssc, joined by commas, or None.
OrientationReport(flags) ==
    LET names == (IF flags["lsc"] THEN << >> ELSE << "lsc" >>)
                 \o (IF flags["ira"] THEN << >> ELSE << "ira" >>)
                 \o (IF flags["ssc"] THEN << >> ELSE << "ssc" >>)
    IN  IF names = << >> THEN None ELSE Str(JoinTokens(names, ","))

\* The three values as computed from one partition of the object.
ComputedFrom(d, p) ==
    LET offset == seq_offset(d.length, get_part_by_name(p.parts, "lsc").start)
    IN  /\ d.offset = PyInt(offset)
        /\ d.trnH_GUG = trnH_GUG_offset(d.length, offset, d._genes)
        /\ d.part_orientation =
              OrientationReport(chloroplast_parts_orientation(d.length, p.parts, d._genes))

\* C24: set_parts_data computes the offset, the trnH-GUG offset and the part
\* orientation from the reconstructed partition when the object has one and
\* from the directly detected partition otherwise, with seq_offset and
\* chloroplast_parts_orientation in both cases; with neither partition none
\* of the three is computed.
TookPartsSupersedeForOffsets ==
    d_pc = "data set" =>
       IF d_desc._took_parts # None THEN ComputedFrom(d_desc, d_desc._took_parts)
       ELSE IF d_desc._parts # None THEN ComputedFrom(d_desc, d_desc._parts)
       ELSE /\ d_desc.offset = Unset
            /\ d_desc.trnH_GUG = Unset
            /\ d_desc.part_orientation = None

\* The object has both partitions, with lsc at different starts, and its
\* offset is that of the reconstructed one.
OffsetOfTookPartsBesideDirect ==
    /\ d_pc = "data set"
    /\ d_desc._took_parts # None /\ d_desc._parts # None
    /\ get_part_by_name(d_desc._took_parts.parts, "lsc").start
          # get_part_by_name(d_desc._parts.parts, "lsc").start
    /\ d_desc.offset.v < 0
    /\ d_desc.trnH_GUG # None
    /\ d_desc.took_part_starts # None /\ d_desc.part_starts # None

\* The flags of the partition set_parts_data has taken.
FlagsOfDesc(d) ==
    LET p == IF d._took_parts # None THEN d._took_parts ELSE d._parts
    IN  chloroplast_parts_orientation(d.length, p.parts, d._genes)

\* C25: a part with a false flag is reported, not raised: part_orientation is
\* the names of the parts whose flag is false in the order lsc, ira, ssc,
\* joined by commas, it stays None exactly when the three flags are true, and
\* set_parts_data ends without an error.
FalseFlagsAreReportedInOrder ==
    (d_pc = "data set" /\ (d_desc._took_parts # None \/ d_desc._parts # None)) =>
       LET flags == FlagsOfDesc(d_desc)
       IN  /\ d_desc.tag = "SequenceDesc"
           /\ d_desc.part_orientation = None
                 <=> (flags["lsc"] /\ flags["ira"] /\ flags["ssc"])
           /\ d_desc.part_orientation = OrientationReport(flags)

\* The flags of ira and ssc are false and that of lsc is true.
IraAndSscReported ==
    /\ d_pc = "data set"
    /\ d_desc.part_orientation = Str(<< "ira", ",", "ssc" >>)

-----------------------------------------------------------------------------
(* The constructor *)

\* C26: constructing a SequenceDesc calls the Partition Builder once on the
\* sequence and stores what it returns: _parts is a Partition when exactly two
\* inverted repeats are tied for maximum length and None otherwise,
\* _parts_data is set iff _parts is, and no reconstructed partition is set.
ConstructorStoresBuilderOutcome ==
    d_pc = "constructed" =>
       /\ d_desc.tag = "SequenceDesc"
       /\ d_desc._parts = find_chloroplast_partition(seq)
       /\ d_desc._parts.tag = (IF Cardinality(TiedForMax(seq)) = 2
                               THEN "Partition" ELSE "None")
       /\ (d_desc._parts_data # None) <=> (d_desc._parts # None)
       /\ d_desc._took_parts = None

-----------------------------------------------------------------------------
(* First-nice mode without a nice result *)

\* The alignments of target t against all the candidates of its task.
AlignmentsOfTask(t) ==
    [k \in DOMAIN tasks[t].close_data |-> run_align_cmd(t, tasks[t].close_data[k])]

\* The entry of target t holds bounds of maximal span among results.
RecordedBestOf(t, results) ==
    /\ t \in DOMAIN seq_2_result_object
    /\ \E k \in DOMAIN results :
          /\ results[k] # None
          /\ Irs(seq_2_result_object[t].ira, seq_2_result_object[t].irb) = results[k]
          /\ \A j \in DOMAIN results : results[j] # None =>
                IraSpanElseIrbSpan(results[j]) <= IraSpanElseIrbSpan(results[k])

Yielding(results) == \E k \in DOMAIN results : results[k] # None

\* C27: in first-nice mode, when no candidate of a target gives a nice
\* result, the task aligns every candidate and then records the best 2+1
\* result over all candidates if there is one, else the best 1+2 result if
\* there is one, and records nothing only if no candidate satisfies a tier.
FallsBackToPartialTiers ==
    \A t \in Seqs :
       (tasks[t].pc = "done" /\ tasks[t].first_nice
          /\ ~Yielding(TierResults(1, AlignmentsOfTask(t)))) =>
          LET alignments == AlignmentsOfTask(t)
          IN  /\ align_log[t] = tasks[t].close_data
              /\ IF Yielding(TierResults(2, alignments))
                 THEN RecordedBestOf(t, TierResults(2, alignments))
                 ELSE IF Yielding(TierResults(3, alignments))
                 THEN RecordedBestOf(t, TierResults(3, alignments))
                 ELSE t \notin DOMAIN seq_2_result_object

\* The 2+1 result of the second candidate was recorded though the first
\* candidate gives a 1+2 result.
TwoOneOfSecondCandidateRecorded ==
    \E t \in Seqs :
       /\ tasks[t].pc = "done" /\ tasks[t].first_nice
       /\ Len(tasks[t].close_data) = 2
       /\ LET alignments == AlignmentsOfTask(t)
          IN  /\ ~Yielding(TierResults(1, alignments))
              /\ TierResults(3, alignments)[1] # None
              /\ TierResults(2, alignments)[2] # None
              /\ t \in DOMAIN seq_2_result_object
              /\ Irs(seq_2_result_object[t].ira, seq_2_result_object[t].irb)
                    = TierResults(2, alignments)[2]

-----------------------------------------------------------------------------
(* Extrapolated repeats *)

SpanOf(interval) == interval[2] - interval[1]

\* C28: every result of the 2+1 tier and of the 1+2 tier has IRA and IRB of
\* equal length, end - start, for either strand of the single hit and any
\* coordinates of the matches.
PartialTiersGiveEqualLengths ==
    t_res # None =>
        /\ t_res.p21 # None => SpanOf(t_res.p21.ira) = SpanOf(t_res.p21.irb)
        /\ t_res.p12 # None => SpanOf(t_res.p12.ira) = SpanOf(t_res.p12.irb)

\* The 1+2 tier extrapolated IRA's start from a hit on the negative strand,
\* to a repeat longer than the hit.
OneTwoOnNegativeHit ==
    /\ t_res # None /\ t_res.p12 # None
    /\ ~t_align.end1[1].positive
    /\ t_res.p12.ira[1] # SI0(t_align.end1[1])
    /\ SpanOf(t_res.p12.ira) > SpanOf(t_align.end1[1].sequence_interval)

-----------------------------------------------------------------------------
(* The end of the with block *)

\* C29: the result mapping is read and reconstructed partitions are set only
\* after every task of the batch has been submitted and has finished,
\* completed or crashed: no set_took_part happens while a task is running or
\* not yet started.
TookSetOnlyAfterAllTasksFinished ==
    ((\E s \in Seqs : seq_descs[s].took # None) \/ ret # None) =>
        /\ m_pc = "returned"
        /\ m_i > NumSeqs
        /\ \A t \in Seqs : tasks[t].pc \in {"none", "done", "raised"}

\* A reconstructed partition was set after one task had completed and
\* another had crashed in the middle of its list.
TookSetAfterCompletedAndCrashed ==
    \E t, u \in Seqs :
       /\ tasks[t].pc = "done" /\ seq_descs[t].took # None
       /\ tasks[u].pc = "raised" /\ align_log[u] # << >>
       /\ seq_descs[u].took = None

-----------------------------------------------------------------------------
(* The relatives of a task *)

\* C30: every relative an alignment is run against is a sequence other than
\* the target with a directly detected partition, and the extraction of the
\* ends of its IRA is defined for every candidate of every task, so no task
\* ends in the error of a relative without a partition; also in batches with
\* a shared taxon and with reconstructed partitions carried over.
EveryCandidateHasPartition ==
    \A t \in Seqs :
       /\ \A k \in DOMAIN align_log[t] :
             align_log[t][k] # t /\ seq_descs[align_log[t][k]].parts
       /\ \A k \in DOMAIN tasks[t].close_data :
             tasks[t].close_data[k] # t /\ seq_descs[tasks[t].close_data[k]].parts
       /\ tasks[t].pc # "raised"

=============================================================================
